---- MODULE Spec2Model ----
(***************************************************************************)
(* CmdArgs: the header-only command line parser of StefanJohnsen/CmdArgs.  *)
(*                                                                         *)
(* The repository holds three revisions of CmdArgs.h:                      *)
(*   Strict  src/unnamed/part_001, lines 1-421   (cmd_flag::clear, cwd     *)
(*           anchoring, target directories, target extension validation)  *)
(*   Header  src/CmdArgs.h                       (check() re-enables       *)
(*           convert and translate; no target extension validation)       *)
(*   Legacy  src/unnamed/part_001, lines 423-817 (six flags, goto exit,    *)
(*           exit(1) on a bad help/version request)                        *)
(* A behaviour fixes one revision and then makes any sequence of parse     *)
(* calls, through cmd::parse (a new CmdArgumentParser per call) or on one  *)
(* CmdArgumentParser object that is kept between the calls.                *)
(*                                                                         *)
(* A std::string is a sequence of one-character strings; a path is the     *)
(* string it holds (std::filesystem::path, POSIX format).                  *)
(***************************************************************************)
EXTENDS Naturals, Sequences, FiniteSets

VARIABLES
    variant,      \* the revision of CmdArgs.h the program was built from
    config,       \* the configuration the program was built with
    running,      \* FALSE once the process has left through exit()
    args,         \* argv[1..argc-1] of the latest call
    on,           \* cmd_flag::on of every flag object
    cmd_source,   \* cmd::source
    cmd_target,   \* cmd::target
    _source,      \* CmdArgumentParser::_source of the object of the latest call
    _target,      \* CmdArgumentParser::_target of the object of the latest call
    ret,          \* how the latest call ended: "none" "true" "false" "exit"
    code,         \* the status given to exit()
    out,          \* what the latest call wrote, in order
    fsq,          \* the filesystem queries the latest call made, in order
    calls,        \* the number of calls made so far
    on_before,    \* the flags as the latest call found them
    repeated      \* the latest call was given the arguments of the call before

vars == <<variant, config, running, args, on, cmd_source, cmd_target, _source,
          _target, ret, code, out, fsq, calls, on_before, repeated>>

Strict == "part_001:1-421"
Header == "CmdArgs.h"
Legacy == "part_001:423-817"
Variants == {Strict, Header, Legacy}

-----------------------------------------------------------------------------
(* Strings                                                                 *)

Str_help      == <<"h","e","l","p">>
Str_version   == <<"v","e","r","s","i","o","n">>
Str_convert   == <<"c","o","n","v","e","r","t">>
Str_translate == <<"t","r","a","n","s","l","a","t","e">>
Str_compress  == <<"c","o","m","p","r","e","s","s">>
Str_async     == <<"a","s","y","n","c">>
Str_scale     == <<"s","c","a","l","e">>

Str_txt  == <<"t","x","t">>
Str_csv  == <<"c","s","v">>
Str_json == <<"j","s","o","n">>
Str_rvm  == <<"r","v","m">>
Str_obj  == <<"o","b","j">>
Str_gltf == <<"g","l","t","f">>
Str_ciff == <<"c","i","f","f">>
Str_dat  == <<"d","a","t">>

UpperCase == <<"A","B","C","D","E","F","G","H","I","J","K","L","M",
               "N","O","P","Q","R","S","T","U","V","W","X","Y","Z">>
LowerCase == <<"a","b","c","d","e","f","g","h","i","j","k","l","m",
               "n","o","p","q","r","s","t","u","v","w","x","y","z">>

\* std::tolower in the "C" locale: the lower case letter of each upper case
\* letter
LowerOf ==
    [u \in { UpperCase[i] : i \in 1..Len(UpperCase) } |->
        LowerCase[CHOOSE i \in 1..Len(UpperCase) : UpperCase[i] = u]]

\* std::tolower on one character: other characters are left as they are
tolowerChar(c) == IF c \in DOMAIN LowerOf THEN LowerOf[c] ELSE c

\* cmd::tolower
tolower(txt) == [i \in 1..Len(txt) |-> tolowerChar(txt[i])]

\* std::string::rfind from position i down: the last position of character
\* c in s[1..i], 0 when there is none
RECURSIVE rfind(_, _, _)
rfind(s, c, i) ==
    IF i = 0 THEN 0
    ELSE IF s[i] = c THEN i
    ELSE rfind(s, c, i - 1)

LastIndexOf(s, c) == rfind(s, c, Len(s))

-----------------------------------------------------------------------------
(* std::filesystem::path, as the parser uses it                            *)

\* path::filename(): what follows the last separator
filename(p) == SubSeq(p, LastIndexOf(p, "/") + 1, Len(p))

\* path::parent_path(): what precedes the last separator; the root is its
\* own parent; empty when the path has no separator
parent_path(p) ==
    LET k == LastIndexOf(p, "/")
    IN  IF k = 0 THEN <<>>
        ELSE IF k = 1 THEN <<"/">>
        ELSE SubSeq(p, 1, k - 1)

\* path::extension(): from the last dot of the filename, unless the filename
\* is "." or ".." or its only dot is its first character
extension(p) ==
    LET f == filename(p)
        k == LastIndexOf(f, ".")
    IN  IF f = <<".">> \/ f = <<".",".">> \/ k <= 1 THEN <<>>
        ELSE SubSeq(f, k, Len(f))

has_extension(p) == extension(p) # <<>>

\* path::replace_extension(repl): drop the extension, then append repl,
\* with a dot in front when repl is not empty and does not start with one
replace_extension(p, repl) ==
    LET base == SubSeq(p, 1, Len(p) - Len(extension(p)))
    IN  IF repl = <<>> THEN base
        ELSE IF repl[1] = "." THEN base \o repl
        ELSE base \o <<".">> \o repl

is_absolute(p) == p # <<>> /\ p[1] = "/"

\* operator/ : an absolute right side replaces the left side; otherwise a
\* separator is added when the left side ends in a filename
PathAppend(p, q) ==
    IF is_absolute(q) \/ p = <<>> THEN q
    ELSE IF p[Len(p)] = "/" THEN p \o q
    ELSE p \o <<"/">> \o q

-----------------------------------------------------------------------------
(* The environment: the working directory and the filesystem               *)

\* std::filesystem::current_path()
current_path == <<"/","w">>

\* the directories and the regular files that exist
Directories == { <<"/">>, <<"/","w">>, <<"/","w","/","d">> }
RegularFiles ==
    { <<"/","w","/","a",".","t","x","t">>,
      <<"/","w","/","A",".","T","X","T">>,
      <<"/","w","/","a",".","c","s","v">>,
      <<"/","w","/","d","/","a",".","t","x","t">>,
      <<"/","w","/","d","/","a",".","r","v","m">> }

\* how the operating system reads a path: a relative one from the working
\* directory, the empty one names nothing
Absolute(p) == IF is_absolute(p) THEN p ELSE PathAppend(current_path, p)

\* std::filesystem::is_directory
is_directory(p) == p # <<>> /\ Absolute(p) \in Directories

\* std::filesystem::exists
exists(p) == p # <<>> /\ Absolute(p) \in (Directories \cup RegularFiles)

-----------------------------------------------------------------------------
(* The configuration each revision ships                                   *)

\* The configuration is what the embedding program edits in the header:
\* the one each revision ships, or one of the edits check() is there to
\* reject (an extension list left empty, both lists the same, help or
\* version left out of cmd_flags, a registry of help and version only).
Shipped      == "as shipped"
NoSourceExt  == "source_ext = {}"
NoTargetExt  == "target_ext = {}"
SameExt      == "target_ext = source_ext"
NoHelp       == "cmd_flags without &help"
NoVersion    == "cmd_flags without &version"
TwoFlags     == "cmd_flags = { &help, &version }"
Configurations ==
    {Shipped, NoSourceExt, NoTargetExt, SameExt, NoHelp, NoVersion, TwoFlags}

source_ext(v) ==
    IF config = NoSourceExt THEN <<>>
    ELSE IF v = Legacy THEN <<Str_rvm, Str_obj>>
    ELSE <<Str_txt, Str_csv, Str_json>>

target_ext(v) ==
    IF config = NoTargetExt THEN <<>>
    ELSE IF config = SameExt THEN source_ext(v)
    ELSE IF v = Legacy THEN <<Str_obj, Str_gltf, Str_ciff, Str_dat, Str_txt>>
    ELSE <<Str_csv, Str_json, Str_txt>>

\* the flag objects registered in cmd_flags, in order
cmd_flags(v) ==
    IF config = TwoFlags THEN <<"help", "version">>
    ELSE LET shipped ==
                 IF v = Legacy
                 THEN <<"convert", "compress", "async", "scale", "help", "version">>
                 ELSE <<"convert", "translate", "help", "version">>
             registered(f) ==
                 /\ config = NoHelp => f # "help"
                 /\ config = NoVersion => f # "version"
         IN  SelectSeq(shipped, registered)

\* cmd_flag::_flag of each flag object
flagName(f) ==
    CASE f = "convert"   -> Str_convert
      [] f = "translate" -> Str_translate
      [] f = "compress"  -> Str_compress
      [] f = "async"     -> Str_async
      [] f = "scale"     -> Str_scale
      [] f = "help"      -> Str_help
      [] f = "version"   -> Str_version

\* the flag objects the header declares; cmd_flags registers all of them
\* in the configuration as shipped
FlagObjects(v) ==
    IF v = Legacy
    THEN {"convert", "compress", "async", "scale", "help", "version"}
    ELSE {"convert", "translate", "help", "version"}

\* the second constructor argument of each flag object
ConstructedOn(v) ==
    [f \in FlagObjects(v) |->
        IF v = Header THEN f \in {"convert", "translate"} ELSE f = "convert"]

\* cmd_flag::defaultOn, which only the Strict revision stores
defaultOn(v) == ConstructedOn(v)

\* the last entry of target_ext taken for the default
defaultTargetExt_Last(v) ==
    IF target_ext(v) = <<>> THEN <<>> ELSE target_ext(v)[Len(target_ext(v))]

\* defaultTargetExt(): the first entry of target_ext, empty for an empty list
defaultTargetExt(v) == IF target_ext(v) = <<>> THEN <<>> ELSE target_ext(v)[1]

\* the extension without its dot, in the case it was written in
getExtension_KeepCase(file) ==
    LET ext == extension(file)
    IN  IF ext # <<>> /\ ext[1] = "." THEN Tail(ext) ELSE ext

\* cmd::getExtension: the extension in lower case without its leading dot
getExtension(file) ==
    LET ext == tolower(extension(file))
    IN  IF ext # <<>> /\ ext[1] = "." THEN Tail(ext) ELSE ext

\* CmdArgumentParser::contains
contains(list, value) == \E i \in 1..Len(list) : list[i] = value

-----------------------------------------------------------------------------
(* Output                                                                  *)

\* an err() that writes the message alone
err_NoPrefix(text, arg) ==
    [stream |-> "cerr", prefix |-> "", text |-> text, arg |-> arg]

\* CmdArgumentParser::err: one line on std::cerr, "Error: " in front
err(text, arg) ==
    [stream |-> "cerr", prefix |-> "Error: ", text |-> text, arg |-> arg]

\* the Legacy revision writes its errors to std::cout itself
coutError(prefix, text, arg) ==
    [stream |-> "cout", prefix |-> prefix, text |-> text, arg |-> arg]

\* the text CmdArgumentParser::info (or the Legacy revision) puts on std::cout
coutText(text) ==
    [stream |-> "cout", prefix |-> "", text |-> text, arg |-> <<>>]

\* the message of a failed check, as the revision v reports it
report(v, legacyPrefix, strictText, legacyText, arg) ==
    IF v = Legacy THEN coutError(legacyPrefix, legacyText, arg)
    ELSE err(strictText, arg)

tooManyArguments(v) ==
    report(v, "Error argument: ", "argument: Too many arguments",
           "Too many arguments", <<>>)

-----------------------------------------------------------------------------
(* CmdArgumentParser::check                                                *)

\* every flag switched off, the default-on flags too
checkFlags_AllOff(v) == [f \in FlagObjects(v) |-> FALSE]

\* the flags as check() leaves them: the Strict revision calls clear() on
\* every registered flag, the others switch every flag off and then their
\* default-on flags on again
checkFlags(v) ==
    IF v = Strict THEN [f \in FlagObjects(v) |-> defaultOn(v)[f]]
    ELSE IF v = Header
    THEN [f \in FlagObjects(v) |-> f \in {"convert", "translate"}]
    ELSE [f \in FlagObjects(v) |-> f = "convert"]

\* a check() that validates the extension lists only
checkThrows_ExtensionsOnly(v) ==
    IF source_ext(v) = <<>> \/ target_ext(v) = <<>>
    THEN "Error: source_ext or target_ext is not defined."
    ELSE ""

\* the std::runtime_error check() throws, "" when the configuration is sound
checkThrows(v) ==
    IF source_ext(v) = <<>> \/ target_ext(v) = <<>>
    THEN "Error: source_ext or target_ext is not defined."
    ELSE IF v # Strict /\ source_ext(v) = target_ext(v)
    THEN "Error: source_ext and target_ext cannot be the same."
    ELSE IF ~contains(cmd_flags(v), "help")
    THEN "Error: cmd_flags must contain 'help' flag."
    ELSE IF ~contains(cmd_flags(v), "version")
    THEN "Error: cmd_flags must contain 'version' flag."
    ELSE IF Len(cmd_flags(v)) < 3
    THEN "Error: cmd_flags is not defined."
    ELSE ""

-----------------------------------------------------------------------------
(* CmdArgumentParser::parse: the split of argv                             *)

\* argv[i] ? argv[i] : "" : a null pointer reads as the empty string
NullArg == <<"NULL">>
argString(a) == IF a = NullArg THEN <<>> ELSE a

isFlagArg(a) == argString(a) # <<>> /\ argString(a)[1] = "-"
isFileArg(a) == argString(a) # <<>> /\ argString(a)[1] # "-"

\* a loop that stops collecting flags at the first positional argument
flagsOf_UntilFirstFile(argv) ==
    LET files == { i \in 1..Len(argv) : isFileArg(argv[i]) }
        stop  == IF files = {} THEN Len(argv) + 1
                 ELSE CHOOSE i \in files : \A j \in files : i <= j
    IN  SelectSeq(SubSeq(argv, 1, stop - 1), isFlagArg)

\* the vectors flags and files that parse() fills from argv[1..]
flagsOf(argv) == SelectSeq(argv, isFlagArg)
filesOf(argv) == SelectSeq(argv, isFileArg)

-----------------------------------------------------------------------------
(* CmdArgumentParser::parseFlags                                           *)

\* the comparison of a flag token with the flag names made in lower case
flagMatches_AnyCase(flag, f) ==
    \/ tolower(flag) = <<"-">> \o flagName(f)
    \/ tolower(flag) = <<"-","-">> \o flagName(f)

\* flag == "-" + s || flag == "--" + s
flagMatches(flag, f) ==
    \/ flag = <<"-">> \o flagName(f)
    \/ flag = <<"-","-">> \o flagName(f)

\* the position in cmd_flags of the first flag object the token matches,
\* 0 when no registered flag matches
firstMatch(v, flag) ==
    LET hits == { k \in 1..Len(cmd_flags(v)) : flagMatches(flag, cmd_flags(v)[k]) }
    IN  IF hits = {} THEN 0
        ELSE CHOOSE k \in hits : \A j \in hits : k <= j

\* the loop with "*f = !*f": a token switches its flag over
RECURSIVE flagLoop_Toggle(_, _, _, _, _)
flagLoop_Toggle(v, flags, i, flagsOn, countFlags) ==
    IF i > Len(flags)
    THEN [known |-> TRUE, on |-> flagsOn, countFlags |-> countFlags, flag |-> <<>>]
    ELSE LET k == firstMatch(v, flags[i])
         IN  IF k = 0
             THEN [known |-> FALSE, on |-> flagsOn, countFlags |-> countFlags,
                   flag |-> flags[i]]
             ELSE flagLoop_Toggle(v, flags, i + 1,
                                  [flagsOn EXCEPT ![cmd_flags(v)[k]] = ~@],
                                  countFlags + 1)

\* the loop over the flag tokens from token i on: each known token switches
\* its flag on and is counted, the first unknown one ends the loop
RECURSIVE flagLoop(_, _, _, _, _)
flagLoop(v, flags, i, flagsOn, countFlags) ==
    IF i > Len(flags)
    THEN [known |-> TRUE, on |-> flagsOn, countFlags |-> countFlags, flag |-> <<>>]
    ELSE LET k == firstMatch(v, flags[i])
         IN  IF k = 0
             THEN [known |-> FALSE, on |-> flagsOn, countFlags |-> countFlags,
                   flag |-> flags[i]]
             ELSE flagLoop(v, flags, i + 1,
                           [flagsOn EXCEPT ![cmd_flags(v)[k]] = TRUE],
                           countFlags + 1)

\* the help/version block without the count of the flag tokens
helpOrVersion_FilesOnly(v, flagsOn, countFlags, countFiles) ==
    IF flagsOn["help"] \/ flagsOn["version"]
    THEN IF countFiles # 0
         THEN [ret |-> IF v = Legacy THEN "exit" ELSE "false",
               code |-> IF v = Legacy THEN 1 ELSE 0,
               out |-> <<tooManyArguments(v)>>]
         ELSE IF flagsOn["help"]
         THEN [ret |-> "exit", code |-> 0, out |-> <<coutText("text_help")>>]
         ELSE [ret |-> "exit", code |-> 0, out |-> <<coutText("text_version")>>]
    ELSE [ret |-> "true", code |-> 0, out |-> <<>>]

\* the help/version block with an info() that prints and returns
helpOrVersion_NoExit(v, flagsOn, countFlags, countFiles) ==
    IF flagsOn["help"] \/ flagsOn["version"]
    THEN IF countFlags > 1 \/ countFiles # 0
         THEN [ret |-> IF v = Legacy THEN "exit" ELSE "false",
               code |-> IF v = Legacy THEN 1 ELSE 0,
               out |-> <<tooManyArguments(v)>>]
         ELSE IF flagsOn["help"]
         THEN [ret |-> "true", code |-> 0, out |-> <<coutText("text_help")>>]
         ELSE [ret |-> "true", code |-> 0, out |-> <<coutText("text_version")>>]
    ELSE [ret |-> "true", code |-> 0, out |-> <<>>]

\* the help/version block: "false" (too many arguments), "exit" or "true"
\* (neither flag is on). The Legacy revision leaves through exit(1) where
\* the others return false.
helpOrVersion(v, flagsOn, countFlags, countFiles) ==
    IF flagsOn["help"] \/ flagsOn["version"]
    THEN IF countFlags > 1 \/ countFiles # 0
         THEN [ret |-> IF v = Legacy THEN "exit" ELSE "false",
               code |-> IF v = Legacy THEN 1 ELSE 0,
               out |-> <<tooManyArguments(v)>>]
         ELSE IF flagsOn["help"]
         THEN [ret |-> "exit", code |-> 0, out |-> <<coutText("text_help")>>]
         ELSE [ret |-> "exit", code |-> 0, out |-> <<coutText("text_version")>>]
    ELSE [ret |-> "true", code |-> 0, out |-> <<>>]

parseFlags(v, flags, countFiles, flagsOn) ==
    LET loop == flagLoop(v, flags, 1, flagsOn, 0)
    IN  IF ~loop.known
        THEN [ret |-> "false", code |-> 0, on |-> loop.on,
              out |-> <<report(v, "Error argument: ",
                               "argument: Unknown flag ", "Unknown flag ",
                               loop.flag)>>]
        ELSE LET hv == helpOrVersion(v, loop.on, loop.countFlags, countFiles)
             IN  [ret |-> hv.ret, code |-> hv.code, on |-> loop.on, out |-> hv.out]

-----------------------------------------------------------------------------
(* CmdArgumentParser::parseFiles                                           *)

\* one filesystem query: the function called and the path it is given
Query(op, p) == <<op, p>>

\* a failing parseFiles that finds cmd::source and cmd::target as the call
\* before left them
failed_KeepsPublished(s, t, g, msg, q) ==
    [_source |-> s, _target |-> t, cmd_source |-> cmd_source,
     cmd_target |-> cmd_target, ret |-> "false", out |-> <<msg>>, fsq |-> q]

\* parseFiles returns false after one message; g holds cmd::source and
\* cmd::target, which a failing call does not write
failed(s, t, g, msg, q) ==
    [_source |-> s, _target |-> t, cmd_source |-> g.source,
     cmd_target |-> g.target, ret |-> "false", out |-> <<msg>>, fsq |-> q]

\* parseFiles returns true, with cmd::source = ps and cmd::target = pt
succeeded(s, t, ps, pt, q) ==
    [_source |-> s, _target |-> t, cmd_source |-> ps, cmd_target |-> pt,
     ret |-> "true", out |-> <<>>, fsq |-> q]

\* the message built from the resolved path s instead of the argument files[0]
couldNotFind_Resolved(v, files, s) ==
    report(v, "Error: ", "Could not find the source file ",
           "Could not find the source file ", s)

\* "Could not find the source file " + files[0]
couldNotFind(v, files, s) ==
    report(v, "Error: ", "Could not find the source file ",
           "Could not find the source file ", files[1])

\* the comparison without tolower
sameFile_ExactCase(s, t) == s = t

\* tolower(_source.string()) == tolower(_target.string())
sameFile(s, t) == tolower(s) = tolower(t)

\* the first check of parseFiles with the message of the third
noSourceFile_NotFound(v) ==
    report(v, "Error: ", "Could not find the source file ",
           "Could not find the source file ", <<>>)

noSourceFile(v) ==
    report(v, "Error: ", "No source file specified",
           "No source file specified", <<>>)

\* The Strict revision: the explicit target files[1] next to the source s.
\* A target without a directory goes to the source's directory; the parent
\* must be a directory; a target without extension must be a directory and
\* receives the source's file name with the default target extension.
explicitTarget(v, s, token, q) ==
    LET t1 == IF parent_path(token) = <<>>
              THEN PathAppend(parent_path(s), token)
              ELSE token
        q1 == IF parent_path(t1) # <<>>
              THEN q \o <<Query("is_directory", parent_path(t1))>>
              ELSE q
    IN  IF parent_path(t1) # <<>> /\ ~is_directory(parent_path(t1))
        THEN [ok |-> FALSE, _target |-> t1, fsq |-> q1,
              msg |-> IF has_extension(t1)
                      THEN err("Target file has unknown directory ", t1)
                      ELSE err("Target directory does not exist ", t1)]
        ELSE IF ~has_extension(t1)
        THEN IF ~is_directory(t1)
             THEN [ok |-> FALSE, _target |-> t1,
                   fsq |-> q1 \o <<Query("is_directory", t1)>>,
                   msg |-> err("Target directory does not exist ", t1)]
             ELSE [ok |-> TRUE,
                   _target |-> replace_extension(PathAppend(t1, filename(s)),
                                                 defaultTargetExt(v)),
                   fsq |-> q1 \o <<Query("is_directory", t1)>>,
                   msg |-> err("", <<>>)]
        ELSE [ok |-> TRUE, _target |-> t1, fsq |-> q1, msg |-> err("", <<>>)]

\* The Strict revision: the two checks on the resolved pair, then the
\* assignment of cmd::source and cmd::target
publishStrict(v, s, t, g, q) ==
    IF sameFile(s, t)
    THEN failed(s, t, g, err("Source and target files are the same", <<>>), q)
    ELSE IF ~contains(target_ext(v), getExtension(t))
    THEN failed(s, t, g, err("Target file is not a valid extension: ", t), q)
    ELSE succeeded(s, t, s, t, q)

\* parseFiles of the Strict revision (part_001, lines 314-387); s0 and t0
\* are the members _source and _target as the call finds them
parseFilesStrict(v, files, s0, t0, g) ==
    IF files = <<>>
    THEN failed(s0, t0, g, noSourceFile(v), <<>>)
    ELSE IF Len(files) > 2
    THEN failed(s0, t0, g, tooManyArguments(v), <<>>)
    ELSE LET s1 == files[1]
             q1 == <<Query("is_directory", s1)>>
         IN  IF is_directory(s1)
             THEN IF Len(files) > 1
                  THEN failed(s1, t0, g, tooManyArguments(v), q1)
                  ELSE succeeded(s1, t0, s1, <<>>, q1)
             ELSE LET s2 == IF parent_path(s1) = <<>>
                            THEN PathAppend(current_path, s1)
                            ELSE s1
                      q2 == q1 \o (IF parent_path(s1) = <<>>
                                   THEN <<Query("current_path", <<>>)>>
                                   ELSE <<>>)
                               \o <<Query("exists", s2)>>
                  IN  IF ~exists(s2)
                      THEN failed(s2, t0, g, couldNotFind(v, files, s2), q2)
                      ELSE IF ~contains(source_ext(v), getExtension(s2))
                      THEN failed(s2, t0, g,
                                  err("Source file is not a valid extension: ", s2), q2)
                      ELSE IF Len(files) = 2
                      THEN LET e == explicitTarget(v, s2, files[2], q2)
                           IN  IF e.ok
                               THEN publishStrict(v, s2, e._target, g, e.fsq)
                               ELSE failed(s2, e._target, g, e.msg, e.fsq)
                      ELSE publishStrict(v, s2,
                                         replace_extension(s2, defaultTargetExt(v)),
                                         g, q2)

\* parseFiles of the Header revision (CmdArgs.h, lines 260-309) and of the
\* Legacy revision (part_001, lines 735-808), which differ in their messages
\* only. Directory mode assigns the member _target to cmd::target.
parseFilesLoose(v, files, s0, t0, g) ==
    IF files = <<>>
    THEN failed(s0, t0, g, noSourceFile(v), <<>>)
    ELSE IF Len(files) > 2
    THEN failed(s0, t0, g, tooManyArguments(v), <<>>)
    ELSE LET s1 == files[1]
             q1 == <<Query("is_directory", s1)>>
             q2 == q1 \o <<Query("exists", s1)>>
         IN  IF is_directory(s1)
             THEN IF Len(files) > 1
                  THEN failed(s1, t0, g, tooManyArguments(v), q1)
                  ELSE succeeded(s1, t0, s1, t0, q1)
             ELSE IF ~exists(s1)
             THEN failed(s1, t0, g, couldNotFind(v, files, s1), q2)
             ELSE IF ~contains(source_ext(v), getExtension(s1))
             THEN failed(s1, t0, g,
                         report(v, "Error: ", "Source file is not a valid extension: ",
                                "Source file is not a valid extension: ", s1), q2)
             ELSE LET t1 == IF Len(files) = 2
                            THEN IF parent_path(files[2]) = <<>>
                                 THEN PathAppend(parent_path(s1), filename(files[2]))
                                 ELSE files[2]
                            ELSE replace_extension(s1, defaultTargetExt(v))
                      q3 == IF Len(files) = 2
                            THEN q2 \o <<Query("is_directory", parent_path(t1))>>
                            ELSE q2
                  IN  IF Len(files) = 2 /\ ~is_directory(parent_path(t1))
                      THEN failed(s1, t1, g,
                                  report(v, "Error: ", "Target file has unknown directory ",
                                         "Target file has unknown directory ", t1), q3)
                      ELSE IF sameFile(s1, t1)
                      THEN failed(s1, t1, g,
                                  report(v, "Error: ", "Source and target files are the same",
                                         "Source and target files are the same", <<>>), q3)
                      ELSE succeeded(s1, t1, s1, t1, q3)

\* a parseFiles that takes a _source a previous call left on the object for
\* the result of this call
parseFiles_Cached(v, files, s0, t0, g) ==
    IF s0 # <<>> THEN succeeded(s0, t0, s0, t0, <<>>)
    ELSE IF v = Strict THEN parseFilesStrict(v, files, s0, t0, g)
    ELSE parseFilesLoose(v, files, s0, t0, g)

parseFiles(v, files, s0, t0, g) ==
    IF v = Strict THEN parseFilesStrict(v, files, s0, t0, g)
    ELSE parseFilesLoose(v, files, s0, t0, g)

-----------------------------------------------------------------------------
(* CmdArgumentParser::parse                                                *)

\* One call on a parser object whose members are s0 and t0. check() clears
\* cmd::source and cmd::target and resets the flags before it validates the
\* configuration; then argv is split, the flags are parsed and, when they
\* let the call go on, the files.
parse(v, argv, s0, t0) ==
    LET g     == [source |-> <<>>, target |-> <<>>]
        flags == flagsOf([i \in 1..Len(argv) |-> argString(argv[i])])
        files == filesOf([i \in 1..Len(argv) |-> argString(argv[i])])
        pf    == parseFlags(v, flags, Len(files), checkFlags(v))
        fl    == parseFiles(v, files, s0, t0, g)
    IN  IF checkThrows(v) # ""
        THEN [on |-> checkFlags(v), cmd_source |-> g.source, cmd_target |-> g.target,
              _source |-> s0, _target |-> t0, ret |-> "throw", code |-> 0,
              out |-> <<>>, fsq |-> <<>>]
        ELSE IF pf.ret # "true"
        THEN [on |-> pf.on, cmd_source |-> g.source, cmd_target |-> g.target,
              _source |-> s0, _target |-> t0, ret |-> pf.ret, code |-> pf.code,
              out |-> pf.out, fsq |-> <<>>]
        ELSE [on |-> pf.on, cmd_source |-> fl.cmd_source, cmd_target |-> fl.cmd_target,
              _source |-> fl._source, _target |-> fl._target, ret |-> fl.ret,
              code |-> 0, out |-> fl.out, fsq |-> fl.fsq]

-----------------------------------------------------------------------------
(* The argument lists the calls are made with                              *)

Arg_help       == <<"-">> \o Str_help
Arg_help2      == <<"-","-">> \o Str_help
Arg_version    == <<"-">> \o Str_version
Arg_version2   == <<"-","-">> \o Str_version
Arg_translate  == <<"-">> \o Str_translate
Arg_convert2   == <<"-","-">> \o Str_convert
Arg_Help       == <<"-","H","e","l","p">>
Arg_scale      == <<"-">> \o Str_scale

Arg_a_txt      == <<"a",".","t","x","t">>
Arg_A_TXT      == <<"A",".","T","X","T">>
Arg_a_csv      == <<"a",".","c","s","v">>
Arg_d_a_txt    == <<"d","/","a",".","t","x","t">>
Arg_d_a_rvm    == <<"d","/","a",".","r","v","m">>
Arg_D_a_txt    == <<"D","/","a",".","t","x","t">>
Arg_n_cpp      == <<"n",".","c","p","p">>
Arg_d          == <<"d">>
Arg_b_csv      == <<"b",".","c","s","v">>
Arg_b_zip      == <<"b",".","z","i","p">>
Arg_x_b_csv    == <<"x","/","b",".","c","s","v">>
Arg_o          == <<"o">>
Arg_x_o        == <<"x","/","o">>
Arg_w_d        == <<"/","w","/","d">>
Arg_empty      == <<>>

\* the flag arguments: each spelling of help and version, a flag every
\* revision registers, one only some register, one in the wrong case
FlagArgs ==
    { Arg_help, Arg_help2, Arg_version, Arg_version2, Arg_translate,
      Arg_convert2, Arg_Help, Arg_scale }

\* argv of flags only: none, one, or two of them in either order
FlagLists ==
    { <<>> } \cup { <<x>> : x \in FlagArgs }
    \cup { <<x, y>> : x \in {Arg_help, Arg_version2, Arg_translate, Arg_Help},
                      y \in {Arg_help, Arg_help2, Arg_version2, Arg_translate, Arg_Help} }

\* first positional arguments: files with and without a directory, in both
\* cases, of either revision's source extensions, a missing file, a directory
SourceArgs ==
    { Arg_a_txt, Arg_A_TXT, Arg_a_csv, Arg_d_a_txt, Arg_d_a_rvm, Arg_n_cpp, Arg_d }

\* second positional arguments: files and directories that exist or not,
\* with and without a directory of their own, relative and absolute
TargetArgs ==
    { Arg_b_csv, Arg_b_zip, Arg_x_b_csv, Arg_o, Arg_x_o, Arg_d, Arg_w_d,
      Arg_A_TXT }

\* argv of positional arguments only: a source, a source that exists and a
\* target, a missing source or a directory and a second argument, the
\* source given as its own target, also under a directory that differs in
\* case and does not exist, or one argument more
FileLists ==
    { <<s>> : s \in SourceArgs }
    \cup { <<s, t>> : s \in {Arg_a_txt, Arg_d_a_txt, Arg_d_a_rvm}, t \in TargetArgs }
    \cup { <<s, t>> : s \in {Arg_n_cpp, Arg_d}, t \in {Arg_b_csv, Arg_d} }
    \cup { <<s, s>> : s \in {Arg_d_a_txt, Arg_d_a_rvm} }
    \cup { <<Arg_d_a_txt, Arg_D_a_txt>> }
    \cup { <<s, Arg_b_csv, Arg_b_zip>> : s \in {Arg_a_txt, Arg_d, Arg_n_cpp} }

\* argv with one flag, or an empty or null argument, among the positional
\* arguments: in front of them, between them or after them
MixedLists ==
    { <<x>> \o f : x \in {Arg_translate, Arg_help, Arg_Help, Arg_empty},
                   f \in {<<Arg_a_txt>>, <<Arg_d>>, <<Arg_d_a_txt, Arg_b_csv>>,
                          <<Arg_d_a_rvm, Arg_b_zip>>} }
    \cup { f \o <<x>> : x \in {Arg_translate, Arg_version2, Arg_Help, NullArg},
                        f \in {<<Arg_a_txt>>, <<Arg_d>>, <<Arg_d_a_txt, Arg_b_csv>>} }
    \cup { <<Arg_d_a_txt, x, Arg_b_csv>> : x \in {Arg_translate, Arg_empty} }
    \cup { <<Arg_empty>>, <<NullArg, Arg_help>>, <<Arg_version, Arg_empty>> }

ArgLists == FlagLists \cup FileLists \cup MixedLists

\* the number of calls a behaviour makes
MaxCalls == 2

-----------------------------------------------------------------------------
(* The program                                                             *)

\* the program as it starts: no call made, every object as constructed
Constructed ==
    /\ variant \in Variants
    /\ running = TRUE
    /\ args = <<>>
    /\ on = ConstructedOn(variant)
    /\ cmd_source = <<>>
    /\ cmd_target = <<>>
    /\ _source = <<>>
    /\ _target = <<>>
    /\ ret = "none"
    /\ code = 0
    /\ out = <<>>
    /\ fsq = <<>>
    /\ calls = 0
    /\ on_before = ConstructedOn(variant)
    /\ repeated = FALSE

\* a program built with the configuration its revision ships
Init == config = Shipped /\ Constructed

\* a program built with an edited configuration
InitConfig == config \in Configurations \ {Shipped} /\ Constructed

\* the state a call leaves, r being what parse() computed
Called(argv, r) ==
    /\ args' = argv
    /\ on' = r.on
    /\ cmd_source' = r.cmd_source
    /\ cmd_target' = r.cmd_target
    /\ _source' = r._source
    /\ _target' = r._target
    /\ ret' = r.ret
    /\ code' = r.code
    /\ out' = r.out
    /\ fsq' = r.fsq
    /\ running' = (r.ret \notin {"exit", "throw"})
    /\ calls' = calls + 1
    /\ on_before' = on
    /\ repeated' = (calls > 0 /\ argv = args)
    /\ UNCHANGED <<variant, config>>

\* cmd::parse(argc, argv): a new CmdArgumentParser for this call
CmdParse ==
    /\ running
    /\ calls < MaxCalls
    /\ \E argv \in ArgLists : Called(argv, parse(variant, argv, <<>>, <<>>))

\* command.parse(argc, argv) on the CmdArgumentParser the program keeps
ParserParse ==
    /\ running
    /\ calls < MaxCalls
    /\ \E argv \in ArgLists : Called(argv, parse(variant, argv, _source, _target))

Next == CmdParse \/ ParserParse

Spec == Init /\ [][Next]_vars

\* the same calls made by a program with an edited configuration
SpecConfig == InitConfig /\ [][Next]_vars

\* CmdArgumentParser::source() and target() on the parser object of the
\* latest call: the members as they are
parser_source == _source
parser_target == _target

-----------------------------------------------------------------------------
(* The vocabulary of the properties                                        *)

\* the flag tokens and the positional tokens of the latest call
argFlags == flagsOf([i \in 1..Len(args) |-> argString(args[i])])
argFiles == filesOf([i \in 1..Len(args) |-> argString(args[i])])

\* the spellings "-name" and "--name" of the flag object f
Spellings(f) == { <<"-">> \o flagName(f), <<"-","-">> \o flagName(f) }

\* the latest call was given a token for the flag object f
hasToken(f) == \E i \in 1..Len(argFlags) : argFlags[i] \in Spellings(f)

\* the flag token is the spelling of a registered flag
Registered(token) == \E f \in FlagObjects(variant) : token \in Spellings(f)

\* the positions of the flag tokens that no registered flag spells
UnknownAt == { i \in 1..Len(argFlags) : ~Registered(argFlags[i]) }

\* the flags let the call go on to the files: every flag token is
\* registered and none asks for help or version
FlagsPass ==
    /\ UnknownAt = {}
    /\ ~hasToken("help")
    /\ ~hasToken("version")

\* the path names something in the filesystem, a directory
InFilesystem(p) == p # <<>> /\ Absolute(p) \in (Directories \cup RegularFiles)
IsDirectory(p) == p # <<>> /\ Absolute(p) \in Directories

\* the call reached the files with one or two positional tokens, the
\* first of which is no directory
FileMode ==
    /\ calls > 0
    /\ FlagsPass
    /\ Len(argFiles) \in {1, 2}
    /\ ~IsDirectory(argFiles[1])

\* the extension of a path without its dot, letter by letter in lower case
LowerExtension(p) ==
    LET e == extension(p)
    IN  [i \in 1..(IF e = <<>> THEN 0 ELSE Len(e) - 1) |-> tolowerChar(e[i + 1])]

\* path::stem(): the filename without its extension
stem(p) == SubSeq(filename(p), 1, Len(filename(p)) - Len(extension(p)))

\* the only message of the latest call has this text
Reported(texts) == Len(out) = 1 /\ out[1].text \in texts

TooManyTexts == {"argument: Too many arguments", "Too many arguments"}
UnknownFlagTexts == {"argument: Unknown flag ", "Unknown flag "}

\* the call failed: it returned false, or, when the Legacy revision rejects
\* a help/version request, it left through exit(1)
FailedTooMany ==
    /\ Reported(TooManyTexts)
    /\ \/ ret = "false" /\ running
       \/ /\ variant = Legacy
          /\ hasToken("help") \/ hasToken("version")
          /\ ret = "exit"
          /\ code = 1

InformationalExit(text) ==
    /\ ret = "exit"
    /\ code = 0
    /\ out = <<coutText(text)>>
    /\ ~running

\* the call resolved an explicit target: two positional tokens, the first
\* of which names an existing file with an extension of source_ext
TargetStep ==
    /\ FileMode
    /\ Len(argFiles) = 2
    /\ InFilesystem(argFiles[1])
    /\ contains(source_ext(variant), LowerExtension(argFiles[1]))

\* the explicit target token where the spec puts it: next to the source
\* when it has no directory component, as it is given otherwise
AnchoredTarget ==
    IF parent_path(argFiles[2]) = <<>>
    THEN PathAppend(parent_path(_source), argFiles[2])
    ELSE argFiles[2]

TargetDirectoryTexts ==
    {"Target file has unknown directory ", "Target directory does not exist "}

\* the configuration breaks one of the rules the spec lists for check()
ConfigViolation == config \in {NoSourceExt, NoTargetExt, NoHelp, NoVersion, TwoFlags}

\* the latest call ended neither in success nor in the informational exit
UserInputFailure ==
    /\ calls > 0
    /\ ret # "true"
    /\ ~(ret = "exit" /\ code = 0)

\* a resolved pair that passes every check the Strict revision makes on it
WouldPublish(s, t) ==
    /\ InFilesystem(s)
    /\ ~IsDirectory(s)
    /\ contains(source_ext(variant), LowerExtension(s))
    /\ t # <<>>
    /\ IsDirectory(parent_path(t))
    /\ tolower(s) # tolower(t)
    /\ contains(target_ext(variant), LowerExtension(t))

\* the arguments of the latest call by what they are: empty or null, a flag
\* token (it begins with the marker), a positional token
IsSkipped(a) == a = <<>> \/ a = NullArg
IsFlagToken(a) == ~IsSkipped(a) /\ a[1] = "-"
IsPositionalToken(a) == ~IsSkipped(a) /\ a[1] # "-"
FlagTokens == SelectSeq(args, IsFlagToken)
PositionalTokens == SelectSeq(args, IsPositionalToken)

\* the arguments of the latest call put in order: the flag tokens, then the
\* positional tokens, nothing empty or null
Canonical == FlagTokens \o PositionalTokens

\* what a call lets its caller see
Outcome(r) == <<r.ret, r.code, r.out, r.on, r.cmd_source, r.cmd_target>>

-----------------------------------------------------------------------------
(* The properties                                                          *)

\* C1: after every call, whether it returned true or false or left through
\* exit, every registered flag that has no token in the call's arguments
\* reads as the default it was constructed with: a default-on flag is on, a
\* default-off flag is off, whatever an earlier call had set.
C1_FlagsResetToDefault ==
    calls > 0 =>
        \A f \in FlagObjects(variant) :
            ~hasToken(f) => on[f] = ConstructedOn(variant)[f]

\* C1 witness: the second call succeeded and a default-off flag that the
\* first call had left on, and that has no token now, is off again.
C1_Witness ==
    /\ calls = 2
    /\ ret = "true"
    /\ \E f \in FlagObjects(variant) :
          /\ on_before[f]
          /\ ~ConstructedOn(variant)[f]
          /\ ~hasToken(f)
          /\ ~on[f]

\* C2: directory mode. When the flags let the call go on and the first
\* positional token names an existing directory, the call succeeds exactly
\* when that token is the only positional one, a further one is rejected
\* with "Too many arguments", and on success cmd::source is the token,
\* cmd::target is empty and nothing was reported, in every call of every
\* sequence of calls.
C2_DirectoryMode ==
    (calls > 0 /\ FlagsPass /\ argFiles # <<>> /\ IsDirectory(argFiles[1])) =>
        /\ (ret = "true") <=> (Len(argFiles) = 1)
        /\ Len(argFiles) > 1 => ret = "false" /\ Reported(TooManyTexts)
        /\ ret = "true" =>
              /\ cmd_source = argFiles[1]
              /\ cmd_target = <<>>
              /\ out = <<>>

C4_OnlyFlagEnabled ==
    (calls > 0 /\ (on["help"] \/ on["version"])) =>
        IF Cardinality({ f \in FlagObjects(variant) : hasToken(f) }) = 1
              /\ argFiles = <<>>
        THEN ret = "exit" /\ code = 0
        ELSE FailedTooMany

\* C4 amended: when every flag token is registered and one of them asks for
\* help or version, the call ends in the informational exit exactly when
\* that token is the only flag token (a repeated -help counts twice) and
\* there is no positional token; otherwise it fails with "Too many
\* arguments" (the Legacy revision then leaves through exit(1)).
C4_OnlyFlagToken ==
    (calls > 0 /\ UnknownAt = {} /\ (hasToken("help") \/ hasToken("version"))) =>
        IF Len(argFlags) = 1 /\ argFiles = <<>>
        THEN InformationalExit(IF hasToken("help") THEN "text_help"
                               ELSE "text_version")
        ELSE /\ FailedTooMany
             /\ variant # Legacy => ret = "false"

\* C4 witness: help given twice, and nothing else, was rejected.
C4_Witness ==
    /\ calls > 0
    /\ argFlags = <<Arg_help, Arg_help2>>
    /\ argFiles = <<>>
    /\ FailedTooMany
    /\ on["help"]

\* C5: a call whose only argument is -help, --help, -version or --version
\* prints the help or the version text and leaves through exit(0): no
\* filesystem query was made, cmd::source and cmd::target are empty, and no
\* further call is made.
C5_InformationalExit ==
    (calls > 0 /\ argFiles = <<>> /\ Len(argFlags) = 1
        /\ argFlags[1] \in {Arg_help, Arg_help2, Arg_version, Arg_version2}) =>
        /\ InformationalExit(IF argFlags[1] \in {Arg_help, Arg_help2}
                             THEN "text_help" ELSE "text_version")
        /\ fsq = <<>>
        /\ cmd_source = <<>>
        /\ cmd_target = <<>>
        /\ ~ENABLED Next

\* C5 witness: the first call was --version and the process has left.
C5_Witness ==
    /\ calls = 1
    /\ args = <<Arg_version2>>
    /\ ret = "exit"
    /\ code = 0
    /\ ~running

\* C6: when some flag token is not "-name" or "--name" of a registered flag,
\* in the case the name is written in, the call returns false after the
\* one message "Unknown flag" naming the first such token; it does not
\* leave through exit, makes no filesystem query and publishes no path.
C6_UnknownFlag ==
    (calls > 0 /\ UnknownAt # {}) =>
        /\ ret = "false"
        /\ running
        /\ Reported(UnknownFlagTexts)
        /\ out[1].arg = argFlags[CHOOSE i \in UnknownAt : \A j \in UnknownAt : i <= j]
        /\ fsq = <<>>
        /\ cmd_source = <<>>
        /\ cmd_target = <<>>

\* C6 witness: -Help in front of -help was rejected as unknown.
C6_Witness ==
    /\ calls > 0
    /\ args = <<Arg_Help, Arg_help>>
    /\ ret = "false"
    /\ out[1].arg = Arg_Help

C9_SameFileMessage ==
    (FileMode /\ InFilesystem(argFiles[1])
        /\ contains(source_ext(variant), LowerExtension(argFiles[1]))
        /\ tolower(_source) = tolower(_target)) =>
        /\ ret = "false"
        /\ Reported({"Source and target files are the same"})

\* C9 amended: after every successful call in file mode cmd::source and
\* cmd::target differ when compared in lower case. A call that resolved a
\* pair equal in lower case failed: with "Source and target files are the
\* same" when the target is derived or the directory of the explicit target
\* exists, with the message of the target directory check, which comes
\* first, when it does not.
C9_SourceDiffersFromTarget ==
    /\ (FileMode /\ ret = "true") =>
          /\ tolower(cmd_source) # tolower(cmd_target)
          /\ cmd_source = _source
          /\ cmd_target = _target
    /\ (FileMode /\ InFilesystem(argFiles[1])
          /\ contains(source_ext(variant), LowerExtension(argFiles[1]))
          /\ tolower(_source) = tolower(_target)) =>
          /\ ret = "false"
          /\ IF Len(argFiles) = 1 \/ IsDirectory(parent_path(_target))
             THEN Reported({"Source and target files are the same"})
             ELSE Reported({"Target file has unknown directory "})
    /\ Reported({"Source and target files are the same"}) =>
          tolower(_source) = tolower(_target)

\* C9 witness: a target that differs from the source in case only was
\* rejected.
C9_Witness ==
    /\ FileMode
    /\ Len(argFiles) = 2
    /\ _source # _target
    /\ tolower(_source) = tolower(_target)
    /\ Reported({"Source and target files are the same"})

\* C10: after every successful call in file mode the extension of
\* cmd::target, in lower case and without the dot, is in target_ext.
C10_TargetExtension ==
    (FileMode /\ ret = "true") =>
        contains(target_ext(variant), LowerExtension(cmd_target))

\* C11: an explicit target token without a directory component, here one
\* with an extension (a file), is placed in the directory of the source
\* file: the resolved target is that directory joined with the token, it
\* has a directory, the one the source file is in, and the call does not
\* reject it for its directory.
C11_TargetNextToSource ==
    (TargetStep /\ parent_path(argFiles[2]) = <<>> /\ has_extension(argFiles[2])) =>
        /\ _target = PathAppend(parent_path(_source), argFiles[2])
        /\ parent_path(_target) # <<>>
        /\ Absolute(parent_path(_target)) = parent_path(Absolute(argFiles[1]))
        /\ ~Reported(TargetDirectoryTexts)

\* C12: an explicit target token without extension that names an existing
\* directory (next to the source when it has no directory component) is
\* resolved to that directory joined with the file name of the source, with
\* the first entry of target_ext as the extension.
C12_TargetDirectory ==
    (TargetStep /\ ~has_extension(argFiles[2]) /\ IsDirectory(AnchoredTarget)) =>
        _target = replace_extension(PathAppend(AnchoredTarget, filename(_source)),
                                    target_ext(variant)[1])

\* C13: after a successful call whose source token has no directory
\* component, cmd::source is the working directory joined with the token,
\* and the target is resolved from that path: a derived target is it with
\* the default target extension, an explicit target without a directory is
\* in the working directory.
C13_SourceAnchoredToCwd ==
    (FileMode /\ ret = "true" /\ parent_path(argFiles[1]) = <<>>) =>
        /\ cmd_source = PathAppend(current_path, argFiles[1])
        /\ Len(argFiles) = 1 =>
              cmd_target = replace_extension(PathAppend(current_path, argFiles[1]),
                                             target_ext(variant)[1])
        /\ (Len(argFiles) = 2 /\ parent_path(argFiles[2]) = <<>>) =>
              parent_path(cmd_target) = current_path
                  \/ parent_path(parent_path(cmd_target)) = current_path

C16_PositionalCount ==
    (calls > 0 /\ FlagsPass) =>
        /\ argFiles = <<>> =>
              /\ ret = "false"
              /\ Reported({"No source file specified"})
              /\ fsq = <<>>
        /\ Len(argFiles) > 2 =>
              /\ ret = "false"
              /\ Reported(TooManyTexts)
              /\ fsq = <<>>
        /\ Len(argFiles) \in {1, 2} => fsq # <<>>

\* C16 witness: three positional tokens, the first an existing directory,
\* were rejected without a query.
C16_Witness ==
    /\ calls > 0
    /\ FlagsPass
    /\ Len(argFiles) = 3
    /\ IsDirectory(argFiles[1])
    /\ Reported(TooManyTexts)
    /\ fsq = <<>>

\* C17: in a program whose configuration has an empty source_ext or
\* target_ext, lacks help or version in cmd_flags or registers fewer than
\* three flags, every call throws, for every argument list: nothing is
\* written, no flag token has switched a flag, no filesystem query is made,
\* nothing is published, and the call does not return false. Equal
\* extension lists make the Header and Legacy revisions throw as well.
C17_ConfigurationThrows ==
    /\ (calls > 0 /\ ConfigViolation) =>
          /\ ret = "throw"
          /\ out = <<>>
          /\ fsq = <<>>
          /\ on = ConstructedOn(variant)
          /\ cmd_source = <<>>
          /\ cmd_target = <<>>
          /\ ~running
    /\ (calls > 0 /\ config = SameExt) => (ret = "throw" <=> variant # Strict)

\* C17 witness: with an empty source_ext the request -help was answered by
\* the exception.
C17_Witness ==
    /\ calls = 1
    /\ config = NoSourceExt
    /\ args = <<Arg_help>>
    /\ ret = "throw"

C19_TargetDirectoryMessages ==
    TargetStep =>
        /\ ~IsDirectory(parent_path(AnchoredTarget)) =>
              /\ ret = "false"
              /\ Reported({IF has_extension(argFiles[2])
                            THEN "Target file has unknown directory "
                            ELSE "Target directory does not exist "})
        /\ (IsDirectory(parent_path(AnchoredTarget)) /\ ~has_extension(argFiles[2])
               /\ ~IsDirectory(AnchoredTarget)) =>
              /\ ret = "false"
              /\ Reported({"Target directory does not exist "})
        /\ (ret = "true" /\ ~has_extension(argFiles[2])) => IsDirectory(AnchoredTarget)

\* C20: after every call that returned false cmd::source and cmd::target
\* are empty, also when the call before had published a pair; a call that
\* returned true has published its source.
C20_PublishedOnlyOnSuccess ==
    calls > 0 =>
        /\ ret = "false" => cmd_source = <<>> /\ cmd_target = <<>>
        /\ ret = "true" => cmd_source = _source /\ cmd_source # <<>>

\* C20 witness: the second call failed on an unknown flag, on the parser
\* object that still holds the pair its first call resolved and published
\* (in the Strict revision a pair that passes every check), and both
\* published paths are empty.
C20_Witness ==
    /\ calls = 2
    /\ variant = Strict
    /\ ret = "false"
    /\ Reported(UnknownFlagTexts)
    /\ WouldPublish(_source, _target)
    /\ cmd_source = <<>>
    /\ cmd_target = <<>>

\* C21: after every successful call the accessors of the parser object
\* agree with the published paths: source() is cmd::source and target() is
\* cmd::target, and after a call in directory mode both targets are empty,
\* whatever the object was called with before.
C21_AccessorsAgree ==
    (calls > 0 /\ ret = "true") =>
        /\ parser_source = cmd_source
        /\ parser_target = cmd_target
        /\ IsDirectory(argFiles[1]) =>
              /\ parser_target = <<>>
              /\ cmd_target = <<>>

\* C22: the outcome of a call is that of the call with the same flag
\* tokens in front, in their order, followed by the same positional tokens
\* in their order, and without the empty and null arguments: the same
\* return value or exit status, message, flags and published paths, after
\* the same filesystem queries. (The call is compared on a parser object
\* holding the members this call left; the one member a call reads,
\* _target in directory mode, is left as the call found it.) A failure in
\* the flags is reported before any positional token is looked at.
C22_OrderIndependence ==
    calls > 0 =>
        /\ Outcome(parse(variant, Canonical, _source, _target))
              = <<ret, code, out, on, cmd_source, cmd_target>>
        /\ parse(variant, Canonical, _source, _target).fsq = fsq
        /\ (FlagTokens # <<>> /\ ~FlagsPass) => fsq = <<>>

\* C22 witness: a call with a flag between its two positional tokens
\* succeeded with that flag on.
C22_Witness ==
    /\ calls > 0
    /\ ret = "true"
    /\ Len(args) = 3
    /\ IsPositionalToken(args[1])
    /\ IsFlagToken(args[2])
    /\ IsPositionalToken(args[3])
    /\ args # Canonical
    /\ hasToken("translate")
    /\ on["translate"]
    /\ cmd_target # <<>>

====
